---- MODULE Spec2Model ----
(***************************************************************************)
(* Model of main.py: a FastAPI service whose POST / handler memoises       *)
(* answers in a module-level OrderedDict with TTL expiry and LRU eviction, *)
(* and keeps module-level analytics counters.                              *)
(*                                                                         *)
(* query_endpoint is a plain `def`, so the framework runs it on a worker   *)
(* thread of a pool: several requests can be inside the handler at once,   *)
(* and nothing in main.py locks `cache` or `analytics`.  The handler is    *)
(* therefore modelled as a sequence of steps, one per access to the shared *)
(* objects.  Spec serves the requests one at a time; ConcSpec lets the     *)
(* worker threads interleave.                                              *)
(*                                                                         *)
(* Strings are sequences of one-character strings.  Time is an integer;    *)
(* `clock` is the latest value time.time() has returned, and every call    *)
(* returns that value or a later one.                                      *)
(***************************************************************************)
EXTENDS Integers, Sequences, FiniteSets, TLC

VARIABLES
    cache,      \* the OrderedDict, least recently used first: <<[key, answer, ts]>>
    analytics,  \* the dict of the four counters
    clock,      \* the latest value time.time() returned
    frame,      \* per worker thread: position in the handler and its locals
    nreq,       \* number of requests received so far
    log,        \* the responses returned so far, in order of completion, each with
                \* the time its prune read (at) and its entry's timestamp (ts)
    norm,       \* get_cache_key applied in isolation (KeySpec)
    report      \* the latest response of GET /analytics

vars == <<cache, analytics, clock, frame, nreq, log, norm, report>>

(***************************************************************************)
(* Configuration.  main.py sets CACHE_MAX_SIZE = 5000 and CACHE_TTL =      *)
(* 86400 s; the model keeps the code and scales the two numbers down.      *)
(***************************************************************************)
CACHE_MAX_SIZE == 2
CACHE_TTL == 1
AVG_TOKENS_PER_REQUEST == 500
MODEL_COST_CENTS_PER_1M == 50       \* MODEL_COST_PER_1M_TOKENS = 0.50, in cents
HIT_LATENCY == 45
MISS_LATENCY == 2000

(* Bounds of the model *)
NumThreads == 2
MaxRequests == 5
MaxConcRequests == 3
MaxHelloRequests == 4
MaxSnapRequests == 4
MaxLen == 3
MaxTime == CACHE_TTL + 1

Threads == 1..NumThreads

(***************************************************************************)
(* Strings                                                                 *)
(***************************************************************************)
Whitespace == {" ", "\t", "\n", "\r"}

UpperCase == <<"A","B","C","D","E","F","G","H","I","J","K","L","M",
               "N","O","P","Q","R","S","T","U","V","W","X","Y","Z">>
LowerCase == <<"a","b","c","d","e","f","g","h","i","j","k","l","m",
               "n","o","p","q","r","s","t","u","v","w","x","y","z">>

\* str.lower() on one character
LowerChar(c) ==
    IF \E i \in 1..Len(UpperCase) : UpperCase[i] = c
    THEN LowerCase[CHOOSE i \in 1..Len(UpperCase) : UpperCase[i] = c]
    ELSE c

\* str.lower()
Lower(s) == [i \in 1..Len(s) |-> LowerChar(s[i])]

\* str.lstrip(): drop the whole leading run of whitespace
RECURSIVE LStrip(_)
LStrip(s) ==
    IF s # <<>> /\ Head(s) \in Whitespace THEN LStrip(Tail(s)) ELSE s

\* str.rstrip(): drop the whole trailing run of whitespace
RECURSIVE RStrip(_)
RStrip(s) ==
    IF s # <<>> /\ s[Len(s)] \in Whitespace
    THEN RStrip(SubSeq(s, 1, Len(s) - 1))
    ELSE s

\* Variant: at most one whitespace character taken off each end
StripOne(s) ==
    LET l == IF s # <<>> /\ Head(s) \in Whitespace THEN Tail(s) ELSE s
    IN  IF l # <<>> /\ l[Len(l)] \in Whitespace THEN SubSeq(l, 1, Len(l) - 1) ELSE l

\* str.strip()
Strip(s) == RStrip(LStrip(s))

\* Variant: the key keeps the case of the query
StripOnly(q) == Strip(q)

\* get_cache_key(query): query.strip().lower()
get_cache_key(q) == Lower(Strip(q))

\* f"AI response for: {request.query}"
Answer(q) == <<"AI response for: ">> \o q

(* The raw queries the clients send. *)
QHello1 == <<"H","e","l","l","o"," ","W","o","r","l","d">>
QHello2 == <<" ","h","e","l","l","o"," ","w","o","r","l","d"," ">>
QHello3 == <<"H","E","L","L","O"," ","W","O","R","L","D">>
QB == <<"b">>
QC == <<"C"," ">>

Queries == {QHello2, QB, QC}
HelloQueries == {QHello1, QHello2, QHello3, QB, QC}
ConcQueries == {QHello2, QB}

(***************************************************************************)
(* The OrderedDict                                                         *)
(***************************************************************************)
KeysOf(c) == {c[i].key : i \in 1..Len(c)}

IndexOf(c, k) == CHOOSE i \in 1..Len(c) : c[i].key = k

\* cache.pop(k) for a key that is present: the dict without it, order kept
Without(c, k) ==
    LET i == IndexOf(c, k)
    IN  SubSeq(c, 1, i - 1) \o SubSeq(c, i + 1, Len(c))

\* Variant: a new key goes to the front
SetItemFront(c, k, a, ts) ==
    LET e == [key |-> k, answer |-> a, ts |-> ts]
    IN  IF k \in KeysOf(c)
        THEN [c EXCEPT ![IndexOf(c, k)] = e]
        ELSE <<e>> \o c

\* cache[k] = (a, ts): a new key goes to the end, an existing key keeps its place
SetItem(c, k, a, ts) ==
    LET e == [key |-> k, answer |-> a, ts |-> ts]
    IN  IF k \in KeysOf(c)
        THEN [c EXCEPT ![IndexOf(c, k)] = e]
        ELSE Append(c, e)

\* Variant: an entry expires as soon as its age reaches the TTL
ExpiredAtTTL(now, ts) == now - ts >= CACHE_TTL

\* now - ts > CACHE_TTL
Expired(now, ts) == now - ts > CACHE_TTL

(***************************************************************************)
(* Worker threads                                                          *)
(***************************************************************************)
Idle == [pc |-> "idle", query |-> <<>>, key |-> <<>>, tmp |-> 0, now |-> 0,
         ktd |-> <<>>, left |-> 0, dirty |-> FALSE, answer |-> <<>>, ts |-> 0,
         before |-> <<>>,   \* the store as it was when prune_cache began and, once
                            \* it has returned, as prune_cache left it
         again |-> FALSE]   \* prune_cache has been called a second time (PruneSpec)

\* The linked list of the OrderedDict changed under thread t's hand: every
\* other thread iterating over it will see that at its next step.
Touch(fr, t) ==
    [u \in Threads |->
        IF u # t /\ fr[u].pc = "prune_iter"
        THEN [fr[u] EXCEPT !.dirty = TRUE]
        ELSE fr[u]]

\* return {...}: the response goes out and the thread is free again
Respond(t, cached, latency) ==
    /\ log' = Append(log, [query |-> frame[t].query, key |-> frame[t].key,
                           answer |-> frame[t].answer, cached |-> cached,
                           latency |-> latency, at |-> frame[t].now,
                           ts |-> frame[t].ts, status |-> "ok"])

\* an exception leaves the handler: the framework answers 500
Raise(t, exc) ==
    /\ log' = Append(log, [query |-> frame[t].query, key |-> frame[t].key,
                           answer |-> <<>>, cached |-> FALSE,
                           latency |-> 0, at |-> frame[t].now,
                           ts |-> 0, status |-> exc])

(***************************************************************************)
(* GET /analytics.  A float is kept as the fraction it stands for, with    *)
(* `ok` false when the division that produced it had a zero divisor;       *)
(* round(x, 2) is kept in hundredths.                                      *)
(***************************************************************************)
Zero == [num |-> 0, den |-> 1, ok |-> TRUE]

\* a / b
TrueDiv(a, b) == [num |-> a, den |-> b, ok |-> b # 0]

\* x * k
Times100(x) == [x EXCEPT !.num = 100 * x.num]

\* n / d to the nearest integer, a tie going to the even one
RoundDiv(n, d) ==
    LET q == n \div d
        r == n % d
    IN  IF 2 * r < d THEN q
        ELSE IF 2 * r > d THEN q + 1
        ELSE IF q % 2 = 0 THEN q ELSE q + 1

\* round(x, 2), in hundredths
Round2(x) == RoundDiv(100 * x.num, x.den)

\* Variant: the rate is computed without the test on total
RateUnguarded(count, total) == TrueDiv(count, total)

\* analytics[...] / total if total else 0
Rate(count, total) == IF total # 0 THEN TrueDiv(count, total) ELSE Zero

\* (analytics["cached_tokens"] * MODEL_COST_PER_1M_TOKENS) / 1_000_000
Savings(tokens) == TrueDiv(tokens * MODEL_COST_CENTS_PER_1M, 100 * 1000000)

NoReport == [status |-> "none", hitRate |-> 0, missRate |-> 0, totalRequests |-> 0,
             cacheHits |-> 0, cacheMisses |-> 0, cacheSize |-> 0, costSavings |-> 0,
             costSavingsPercent |-> 0, strategies |-> <<>>]

\* get_analytics(): the response, or the exception that leaves the handler
get_analytics ==
    LET total == analytics.total_requests
        hit_rate == Rate(analytics.cache_hits, total)
        miss_rate == Rate(analytics.cache_misses, total)
        savings == Savings(analytics.cached_tokens)
        savings_percent == Times100(hit_rate)
    IN  IF ~hit_rate.ok \/ ~miss_rate.ok
        THEN [NoReport EXCEPT !.status = "ZeroDivisionError"]
        ELSE [status |-> "ok",
              hitRate |-> Round2(hit_rate),
              missRate |-> Round2(miss_rate),
              totalRequests |-> total,
              cacheHits |-> analytics.cache_hits,
              cacheMisses |-> analytics.cache_misses,
              cacheSize |-> Len(cache),
              costSavings |-> Round2(savings),
              costSavingsPercent |-> Round2(savings_percent),
              strategies |-> <<"exact match", "LRU eviction", "TTL expiration">>]

NoCall == [arg |-> <<>>, prev |-> <<>>, out |-> <<>>, calls |-> 0]

Init ==
    /\ cache = <<>>
    /\ analytics = [total_requests |-> 0, cache_hits |-> 0,
                    cache_misses |-> 0, cached_tokens |-> 0]
    /\ clock = 0
    /\ frame = [t \in Threads |-> Idle]
    /\ nreq = 0
    /\ log = <<>>
    /\ norm = NoCall
    /\ report = NoReport

\* The values a call of time.time() can return: the clock does not run backwards
Times == clock..MaxTime

\* A request arrives on thread t; analytics["total_requests"] += 1 reads the counter
Receive(t, q, limit) ==
    /\ frame[t].pc = "idle"
    /\ nreq < limit
    /\ nreq' = nreq + 1
    /\ frame' = [frame EXCEPT ![t] = [Idle EXCEPT !.pc = "inc_total", !.query = q,
                                          !.tmp = analytics.total_requests]]
    /\ UNCHANGED <<cache, analytics, clock, log, norm, report>>

\* ... and stores it back; key = get_cache_key(request.query)
IncTotal(t) ==
    /\ frame[t].pc = "inc_total"
    /\ analytics' = [analytics EXCEPT !.total_requests = frame[t].tmp + 1]
    /\ frame' = [frame EXCEPT ![t].pc = "prune_start",
                              ![t].key = get_cache_key(frame[t].query)]
    /\ UNCHANGED <<cache, clock, nreq, log, norm, report>>

\* prune_cache: now = time.time(); the comprehension opens its iterator
PruneStart(t) ==
    /\ frame[t].pc = "prune_start"
    /\ clock' \in Times
    /\ frame' = [frame EXCEPT ![t].pc = "prune_iter", ![t].now = clock',
                              ![t].ktd = <<>>, ![t].left = Len(cache),
                              ![t].dirty = FALSE, ![t].before = cache]
    /\ UNCHANGED <<cache, analytics, nreq, log, norm, report>>

\* prune_cache: one step of [k for k, (_, ts) in cache.items() if now - ts > CACHE_TTL]
PruneIter(t) ==
    /\ frame[t].pc = "prune_iter"
    /\ IF frame[t].left = 0
       THEN /\ frame' = [frame EXCEPT
                   ![t].pc = IF frame[t].ktd = <<>> THEN "prune_check" ELSE "prune_pop"]
            /\ UNCHANGED log
       ELSE IF frame[t].dirty
       THEN /\ Raise(t, "RuntimeError")
            /\ frame' = [frame EXCEPT ![t] = Idle]
       ELSE LET e == cache[Len(cache) - frame[t].left + 1]
            IN  /\ frame' = [frame EXCEPT
                       ![t].left = frame[t].left - 1,
                       ![t].ktd = IF Expired(frame[t].now, e.ts)
                                  THEN Append(frame[t].ktd, e.key)
                                  ELSE frame[t].ktd]
                /\ UNCHANGED log
    /\ UNCHANGED <<cache, analytics, clock, nreq, norm, report>>

\* Variant: for each expired key the least recently used entry is removed
PrunePopOldest(t) ==
    /\ frame[t].pc = "prune_pop"
    /\ LET k == Head(frame[t].ktd)
           rest == Tail(frame[t].ktd)
       IN  IF k \in KeysOf(cache)
           THEN /\ cache' = Tail(cache)
                /\ frame' = [Touch(frame, t) EXCEPT
                       ![t].ktd = rest,
                       ![t].pc = IF rest = <<>> THEN "prune_check" ELSE "prune_pop"]
                /\ UNCHANGED log
           ELSE /\ Raise(t, "KeyError")
                /\ frame' = [frame EXCEPT ![t] = Idle]
                /\ UNCHANGED cache
    /\ UNCHANGED <<analytics, clock, nreq, norm, report>>

\* prune_cache: for k in keys_to_delete: cache.pop(k)
PrunePop(t) ==
    /\ frame[t].pc = "prune_pop"
    /\ LET k == Head(frame[t].ktd)
           rest == Tail(frame[t].ktd)
       IN  IF k \in KeysOf(cache)
           THEN /\ cache' = Without(cache, k)
                /\ frame' = [Touch(frame, t) EXCEPT
                       ![t].ktd = rest,
                       ![t].pc = IF rest = <<>> THEN "prune_check" ELSE "prune_pop"]
                /\ UNCHANGED log
           ELSE /\ Raise(t, "KeyError")
                /\ frame' = [frame EXCEPT ![t] = Idle]
                /\ UNCHANGED cache
    /\ UNCHANGED <<analytics, clock, nreq, norm, report>>

\* Variant: the capacity loop runs while len(cache) > CACHE_MAX_SIZE + 1
PruneCheckLax(t) ==
    /\ frame[t].pc = "prune_check"
    /\ frame' = [frame EXCEPT
           ![t].pc = IF Len(cache) > CACHE_MAX_SIZE + 1 THEN "prune_evict" ELSE "lookup",
           ![t].before = IF Len(cache) > CACHE_MAX_SIZE + 1 THEN frame[t].before ELSE cache]
    /\ UNCHANGED <<cache, analytics, clock, nreq, log, norm, report>>

\* Variant: the capacity loop runs while len(cache) >= CACHE_MAX_SIZE
PruneCheckOffByOne(t) ==
    /\ frame[t].pc = "prune_check"
    /\ frame' = [frame EXCEPT
           ![t].pc = IF Len(cache) >= CACHE_MAX_SIZE THEN "prune_evict" ELSE "lookup",
           ![t].before = IF Len(cache) >= CACHE_MAX_SIZE THEN frame[t].before ELSE cache]
    /\ UNCHANGED <<cache, analytics, clock, nreq, log, norm, report>>

\* prune_cache: while len(cache) > CACHE_MAX_SIZE
PruneCheck(t) ==
    /\ frame[t].pc = "prune_check"
    /\ frame' = [frame EXCEPT
           ![t].pc = IF Len(cache) > CACHE_MAX_SIZE THEN "prune_evict" ELSE "lookup",
           ![t].before = IF Len(cache) > CACHE_MAX_SIZE THEN frame[t].before ELSE cache]
    /\ UNCHANGED <<cache, analytics, clock, nreq, log, norm, report>>

\* Variant: cache.popitem() takes the most recently used entry
PruneEvictNewest(t) ==
    /\ frame[t].pc = "prune_evict"
    /\ IF cache # <<>>
       THEN /\ cache' = SubSeq(cache, 1, Len(cache) - 1)
            /\ frame' = [Touch(frame, t) EXCEPT ![t].pc = "prune_check"]
            /\ UNCHANGED log
       ELSE /\ Raise(t, "KeyError")
            /\ frame' = [frame EXCEPT ![t] = Idle]
            /\ UNCHANGED cache
    /\ UNCHANGED <<analytics, clock, nreq, norm, report>>

\* prune_cache: cache.popitem(last=False)
PruneEvict(t) ==
    /\ frame[t].pc = "prune_evict"
    /\ IF cache # <<>>
       THEN /\ cache' = Tail(cache)
            /\ frame' = [Touch(frame, t) EXCEPT ![t].pc = "prune_check"]
            /\ UNCHANGED log
       ELSE /\ Raise(t, "KeyError")
            /\ frame' = [frame EXCEPT ![t] = Idle]
            /\ UNCHANGED cache
    /\ UNCHANGED <<analytics, clock, nreq, norm, report>>

\* if key in cache: ... else: answer = f"AI response for: {request.query}"
Lookup(t) ==
    /\ frame[t].pc = "lookup"
    /\ frame' = [frame EXCEPT
           ![t].pc = IF frame[t].key \in KeysOf(cache) THEN "hit_pop" ELSE "miss_time",
           ![t].answer = IF frame[t].key \in KeysOf(cache) THEN <<>>
                         ELSE Answer(frame[t].query)]
    /\ UNCHANGED <<cache, analytics, clock, nreq, log, norm, report>>

\* Variant: the hit reads the entry with cache[key] and leaves it where it is
HitPopNoPromote(t) ==
    /\ frame[t].pc = "hit_pop"
    /\ IF frame[t].key \in KeysOf(cache)
       THEN LET e == cache[IndexOf(cache, frame[t].key)]
            IN  /\ frame' = [frame EXCEPT ![t].pc = "hit_set",
                                 ![t].answer = e.answer, ![t].ts = e.ts]
                /\ UNCHANGED log
       ELSE /\ Raise(t, "KeyError")
            /\ frame' = [frame EXCEPT ![t] = Idle]
    /\ UNCHANGED <<cache, analytics, clock, nreq, norm, report>>

\* Variant: the hit answers with a response computed from its own query
HitPopRecompute(t) ==
    /\ frame[t].pc = "hit_pop"
    /\ IF frame[t].key \in KeysOf(cache)
       THEN LET e == cache[IndexOf(cache, frame[t].key)]
            IN  /\ cache' = Without(cache, frame[t].key)
                /\ frame' = [Touch(frame, t) EXCEPT ![t].pc = "hit_set",
                                 ![t].answer = Answer(frame[t].query), ![t].ts = e.ts]
                /\ UNCHANGED log
       ELSE /\ Raise(t, "KeyError")
            /\ frame' = [frame EXCEPT ![t] = Idle]
            /\ UNCHANGED cache
    /\ UNCHANGED <<analytics, clock, nreq, norm, report>>

\* hit: answer, ts = cache.pop(key)
HitPop(t) ==
    /\ frame[t].pc = "hit_pop"
    /\ IF frame[t].key \in KeysOf(cache)
       THEN LET e == cache[IndexOf(cache, frame[t].key)]
            IN  /\ cache' = Without(cache, frame[t].key)
                /\ frame' = [Touch(frame, t) EXCEPT ![t].pc = "hit_set",
                                 ![t].answer = e.answer, ![t].ts = e.ts]
                /\ UNCHANGED log
       ELSE /\ Raise(t, "KeyError")
            /\ frame' = [frame EXCEPT ![t] = Idle]
            /\ UNCHANGED cache
    /\ UNCHANGED <<analytics, clock, nreq, norm, report>>

\* Variant: the hit stores the entry back with the current time
HitSetRefresh(t) ==
    /\ frame[t].pc = "hit_set"
    /\ cache' = SetItem(cache, frame[t].key, frame[t].answer, clock)
    /\ frame' = [(IF frame[t].key \in KeysOf(cache) THEN frame ELSE Touch(frame, t))
                    EXCEPT ![t].pc = "hit_read"]
    /\ UNCHANGED <<analytics, clock, nreq, log, norm, report>>

\* hit: cache[key] = (answer, ts)
HitSet(t) ==
    /\ frame[t].pc = "hit_set"
    /\ cache' = SetItem(cache, frame[t].key, frame[t].answer, frame[t].ts)
    /\ frame' = [(IF frame[t].key \in KeysOf(cache) THEN frame ELSE Touch(frame, t))
                    EXCEPT ![t].pc = "hit_read"]
    /\ UNCHANGED <<analytics, clock, nreq, log, norm, report>>

\* hit: analytics["cache_hits"] += 1, the read
HitRead(t) ==
    /\ frame[t].pc = "hit_read"
    /\ frame' = [frame EXCEPT ![t].pc = "hit_write", ![t].tmp = analytics.cache_hits]
    /\ UNCHANGED <<cache, analytics, clock, nreq, log, norm, report>>

\* Variant: the hit is counted in cache_misses
HitWriteAsMiss(t) ==
    /\ frame[t].pc = "hit_write"
    /\ analytics' = [analytics EXCEPT !.cache_misses = analytics.cache_misses + 1]
    /\ frame' = [frame EXCEPT ![t].pc = "tok_read"]
    /\ UNCHANGED <<cache, clock, nreq, log, norm, report>>

\* hit: analytics["cache_hits"] += 1, the write
HitWrite(t) ==
    /\ frame[t].pc = "hit_write"
    /\ analytics' = [analytics EXCEPT !.cache_hits = frame[t].tmp + 1]
    /\ frame' = [frame EXCEPT ![t].pc = "tok_read"]
    /\ UNCHANGED <<cache, clock, nreq, log, norm, report>>

\* hit: analytics["cached_tokens"] += AVG_TOKENS_PER_REQUEST, the read
TokRead(t) ==
    /\ frame[t].pc = "tok_read"
    /\ frame' = [frame EXCEPT ![t].pc = "tok_write", ![t].tmp = analytics.cached_tokens]
    /\ UNCHANGED <<cache, analytics, clock, nreq, log, norm, report>>

\* hit: ... the write; cached = True; latency = 45; return
TokWrite(t) ==
    /\ frame[t].pc = "tok_write"
    /\ analytics' = [analytics EXCEPT
           !.cached_tokens = frame[t].tmp + AVG_TOKENS_PER_REQUEST]
    /\ Respond(t, TRUE, HIT_LATENCY)
    /\ frame' = [frame EXCEPT ![t] = Idle]
    /\ UNCHANGED <<cache, clock, nreq, norm, report>>

\* miss: time.time()
MissTime(t) ==
    /\ frame[t].pc = "miss_time"
    /\ clock' \in Times
    /\ frame' = [frame EXCEPT ![t].pc = "miss_set", ![t].ts = clock']
    /\ UNCHANGED <<cache, analytics, nreq, log, norm, report>>

\* miss: cache[key] = (answer, time.time())
MissSet(t) ==
    /\ frame[t].pc = "miss_set"
    /\ cache' = SetItem(cache, frame[t].key, frame[t].answer, frame[t].ts)
    /\ frame' = [(IF frame[t].key \in KeysOf(cache) THEN frame ELSE Touch(frame, t))
                    EXCEPT ![t].pc = "miss_read"]
    /\ UNCHANGED <<analytics, clock, nreq, log, norm, report>>

\* miss: analytics["cache_misses"] += 1, the read
MissRead(t) ==
    /\ frame[t].pc = "miss_read"
    /\ frame' = [frame EXCEPT ![t].pc = "miss_write", ![t].tmp = analytics.cache_misses]
    /\ UNCHANGED <<cache, analytics, clock, nreq, log, norm, report>>

\* miss: ... the write; cached = False; latency = 2000; return
MissWrite(t) ==
    /\ frame[t].pc = "miss_write"
    /\ analytics' = [analytics EXCEPT !.cache_misses = frame[t].tmp + 1]
    /\ Respond(t, FALSE, MISS_LATENCY)
    /\ frame' = [frame EXCEPT ![t] = Idle]
    /\ UNCHANGED <<cache, clock, nreq, norm, report>>

\* One step of the handler on thread t
Step(t) ==
    \/ IncTotal(t)
    \/ PruneStart(t)
    \/ PruneIter(t)
    \/ PrunePop(t)
    \/ PruneCheck(t)
    \/ PruneEvict(t)
    \/ Lookup(t)
    \/ HitPop(t)
    \/ HitSet(t)
    \/ HitRead(t)
    \/ HitWrite(t)
    \/ TokRead(t)
    \/ TokWrite(t)
    \/ MissTime(t)
    \/ MissSet(t)
    \/ MissRead(t)
    \/ MissWrite(t)

(* Requests served one at a time: a single worker thread. *)
Next ==
    \/ \E q \in Queries : Receive(1, q, MaxRequests)
    \/ Step(1)

Spec == Init /\ [][Next]_vars

\* prune_cache() called once more when it has just returned, time.time()
\* returning what it returned to the first call
PruneAgain(t) ==
    /\ frame[t].pc = "lookup"
    /\ ~frame[t].again
    /\ frame' = [frame EXCEPT ![t].pc = "prune_iter", ![t].ktd = <<>>,
                              ![t].left = Len(cache), ![t].dirty = FALSE,
                              ![t].before = cache, ![t].again = TRUE]
    /\ UNCHANGED <<cache, analytics, clock, nreq, log, norm, report>>

(* Requests served one at a time, each calling prune_cache once or twice. *)
PruneNext ==
    \/ \E q \in Queries : Receive(1, q, MaxRequests)
    \/ Step(1)
    \/ PruneAgain(1)

PruneSpec == Init /\ [][PruneNext]_vars

\* Variant: the snapshot prunes the store before it reads it
PruningSnapshot ==
    /\ \A t \in Threads : frame[t].pc = "idle"
    /\ cache' = SelectSeq(cache, LAMBDA e : ~Expired(clock, e.ts))
    /\ report' = [get_analytics EXCEPT !.cacheSize = Len(cache')]
    /\ UNCHANGED <<analytics, clock, frame, nreq, log, norm>>

\* GET /analytics, served when the worker is free
GetAnalytics ==
    /\ \A t \in Threads : frame[t].pc = "idle"
    /\ report' = get_analytics
    /\ UNCHANGED <<cache, analytics, clock, frame, nreq, log, norm>>

(* Requests served one at a time, and analytics snapshots between them. *)
AnalyticsNext ==
    \/ GetAnalytics
    \/ \E q \in Queries : Receive(1, q, MaxSnapRequests)
    \/ Step(1)

AnalyticsSpec == Init /\ [][AnalyticsNext]_vars

(* The same, with clients that vary the spelling of one question. *)
HelloNext ==
    \/ \E q \in HelloQueries : Receive(1, q, MaxHelloRequests)
    \/ Step(1)

HelloSpec == Init /\ [][HelloNext]_vars

(***************************************************************************)
(* Requests served by the thread pool, interleaved at every shared access. *)
(* The pool is observed from the state Spec reaches when WarmQueries have  *)
(* been served one after the other at time 0 (WarmedUp below is that state *)
(* and Spec reaches it): the store then holds one entry more than          *)
(* CACHE_MAX_SIZE, so that the concurrent requests meet eviction, expiry,  *)
(* hits and misses within MaxConcRequests requests.                        *)
(***************************************************************************)
WarmQueries == <<QHello2, QB, QC>>

WarmCache ==
    [i \in 1..Len(WarmQueries) |->
        [key |-> get_cache_key(WarmQueries[i]), answer |-> Answer(WarmQueries[i]),
         ts |-> 0]]

WarmLog ==
    [i \in 1..Len(WarmQueries) |->
        [query |-> WarmQueries[i], key |-> get_cache_key(WarmQueries[i]),
         answer |-> Answer(WarmQueries[i]), cached |-> FALSE,
         latency |-> MISS_LATENCY, at |-> 0, ts |-> 0, status |-> "ok"]]

WarmedUp ==
    /\ cache = WarmCache
    /\ analytics = [total_requests |-> Len(WarmQueries), cache_hits |-> 0,
                    cache_misses |-> Len(WarmQueries), cached_tokens |-> 0]
    /\ clock = 0
    /\ frame = [t \in Threads |-> Idle]
    /\ nreq = Len(WarmQueries)
    /\ log = WarmLog
    /\ norm = NoCall
    /\ report = NoReport

ConcInit == WarmedUp

ConcNext ==
    \/ \E t \in Threads : \E q \in ConcQueries :
          Receive(t, q, Len(WarmQueries) + MaxConcRequests)
    \/ \E t \in Threads : Step(t)

ConcSpec == ConcInit /\ [][ConcNext]_vars

(***************************************************************************)
(* get_cache_key on its own: any string over KeyChars of length at most    *)
(* MaxLen, normalised and then normalised again.                           *)
(***************************************************************************)
KeyChars == {" ", "\t", "a", "A", "1"}

Strings == UNION {[1..n -> KeyChars] : n \in 0..MaxLen}

KeyInit ==
    /\ cache = <<>>
    /\ analytics = [total_requests |-> 0, cache_hits |-> 0,
                    cache_misses |-> 0, cached_tokens |-> 0]
    /\ clock = 0
    /\ frame = [t \in Threads |-> Idle]
    /\ nreq = 0
    /\ log = <<>>
    /\ \E s \in Strings : norm = [NoCall EXCEPT !.arg = s, !.out = s]
    /\ report = NoReport

\* out = get_cache_key(out)
Normalize ==
    /\ norm.calls < 2
    /\ norm' = [norm EXCEPT !.prev = norm.out, !.out = get_cache_key(norm.out),
                            !.calls = norm.calls + 1]
    /\ UNCHANGED <<cache, analytics, clock, frame, nreq, log, report>>

KeyNext == Normalize

KeySpec == KeyInit /\ [][KeyNext]_vars

(***************************************************************************)
(* Properties                                                              *)
(***************************************************************************)
AllIdle == \A t \in Threads : frame[t].pc = "idle"

Range(f) == {f[i] : i \in DOMAIN f}

\* the keys of the log's entries from..to, and whether they are pairwise distinct
LogKeys(from, to) == {log[i].key : i \in from..to}
DistinctKeys(from, to) == \A i, j \in from..to : i # j => log[i].key # log[j].key

\* the keys of the store, least recently used first
KeyOrder == [i \in 1..Len(cache) |-> cache[i].key]

(* C1: after every completed request (the insert of a miss included) the   *)
(* store holds at most CACHE_MAX_SIZE entries.                             *)
C1_SizeAfterLookup ==
    (AllIdle /\ Len(log) >= 1) => Len(cache) <= CACHE_MAX_SIZE

(* C2, as claimed: when prune_cache returns, every entry in the store has  *)
(* age now - ts <= CACHE_TTL, and no step of prune_cache removes an entry  *)
(* whose age is exactly CACHE_TTL.                                         *)
C2_ExactTTLRetained ==
    [][\A t \in Threads :
        /\ (frame[t].pc \in {"prune_pop", "prune_evict"} =>
                \A i \in 1..Len(cache) :
                    frame[t].now - cache[i].ts = CACHE_TTL => cache[i] \in Range(cache'))
        /\ (frame[t].pc \in {"prune_iter", "prune_pop", "prune_check"}
              /\ frame'[t].pc = "lookup" =>
                \A i \in 1..Len(cache') : frame'[t].now - cache'[i].ts <= CACHE_TTL)
      ]_vars

(* C2, amended: when prune_cache returns, every entry in the store has age *)
(* now - ts <= CACHE_TTL; the expiry pass removes no entry whose age is    *)
(* CACHE_TTL or less, and the capacity pass removes only the least         *)
(* recently used entry, whatever its age.                                  *)
C2_TTLAfterPrune ==
    [][\A t \in Threads :
        /\ (frame[t].pc = "prune_pop" =>
                \A i \in 1..Len(cache) :
                    frame[t].now - cache[i].ts <= CACHE_TTL => cache[i] \in Range(cache'))
        /\ (frame[t].pc = "prune_evict" => cache' = Tail(cache))
        /\ (frame[t].pc \in {"prune_iter", "prune_pop", "prune_check"}
              /\ frame'[t].pc = "lookup" =>
                \A i \in 1..Len(cache') : frame'[t].now - cache'[i].ts <= CACHE_TTL)
      ]_vars

\* prune_cache has just returned after expiring an entry, and kept one aged exactly TTL
C2_Witness ==
    /\ frame[1].pc = "lookup"
    /\ \E j \in 1..Len(log) :
          /\ ~log[j].cached
          /\ frame[1].now - log[j].ts > CACHE_TTL
          /\ log[j].key \notin KeysOf(cache)
    /\ \E i \in 1..Len(cache) : frame[1].now - cache[i].ts = CACHE_TTL

(* C3: from an empty store, CACHE_MAX_SIZE + 1 requests with distinct keys *)
(* and no hit between them, all within the TTL, leave the store holding    *)
(* the CACHE_MAX_SIZE most recently inserted keys and not the first one.   *)
C3_FirstInsertedEvicted ==
    ( /\ AllIdle
      /\ Len(log) = CACHE_MAX_SIZE + 1
      /\ DistinctKeys(1, CACHE_MAX_SIZE + 1)
      /\ clock - log[1].at <= CACHE_TTL )
    => KeysOf(cache) = LogKeys(2, CACHE_MAX_SIZE + 1)

(* C4: CACHE_MAX_SIZE distinct keys are inserted, the first of them, k, is *)
(* hit, and a further distinct key is inserted, all within the TTL.  Then  *)
(* k is the most recently used but one and the second-inserted key is the  *)
(* least recently used; the capacity pass that the insert makes necessary  *)
(* removes the second-inserted key and keeps k; and a following request    *)
(* for k within the TTL is a hit.                                          *)
C4_Scenario ==
    /\ Len(log) >= CACHE_MAX_SIZE + 2
    /\ DistinctKeys(1, CACHE_MAX_SIZE)
    /\ \A i \in 1..CACHE_MAX_SIZE : ~log[i].cached
    /\ log[CACHE_MAX_SIZE + 1].key = log[1].key
    /\ log[CACHE_MAX_SIZE + 1].cached
    /\ log[CACHE_MAX_SIZE + 2].key \notin LogKeys(1, CACHE_MAX_SIZE)

C4_HitProtects ==
    C4_Scenario =>
        /\ (Len(log) = CACHE_MAX_SIZE + 2 /\ AllIdle
              /\ clock - log[1].at <= CACHE_TTL =>
                KeyOrder = [i \in 1..(CACHE_MAX_SIZE + 1) |->
                              IF i < CACHE_MAX_SIZE THEN log[i + 1].key
                              ELSE IF i = CACHE_MAX_SIZE THEN log[1].key
                              ELSE log[CACHE_MAX_SIZE + 2].key])
        /\ (Len(log) = CACHE_MAX_SIZE + 2 /\ frame[1].pc = "lookup"
              /\ frame[1].now - log[1].at <= CACHE_TTL =>
                /\ log[2].key \notin KeysOf(cache)
                /\ log[1].key \in KeysOf(cache)
                /\ Len(cache) = CACHE_MAX_SIZE)
        /\ (Len(log) >= CACHE_MAX_SIZE + 3
              /\ log[CACHE_MAX_SIZE + 3].key = log[1].key
              /\ log[CACHE_MAX_SIZE + 3].at - log[1].at <= CACHE_TTL =>
                log[CACHE_MAX_SIZE + 3].cached)

\* the scenario has run and the following request for k was served
C4_Witness ==
    /\ C4_Scenario
    /\ Len(log) = CACHE_MAX_SIZE + 3
    /\ log[CACHE_MAX_SIZE + 3].key = log[1].key
    /\ log[CACHE_MAX_SIZE + 3].cached
    /\ log[2].key \notin KeysOf(cache)

\* the log is n requests with pairwise distinct keys followed by requests for those keys
MissesThenRepeats(n) ==
    /\ n <= Len(log)
    /\ DistinctKeys(1, n)
    /\ \A j \in (n + 1)..Len(log) : log[j].key \in LogKeys(1, n)

Counted(total, misses, hits) ==
    /\ analytics.total_requests = total
    /\ analytics.cache_misses = misses
    /\ analytics.cache_hits = hits

(* C5, as claimed: for every N and M, N requests with pairwise distinct    *)
(* keys followed by M requests for keys among them leave total_requests =  *)
(* N + M, cache_misses = N and cache_hits = M.                             *)
C5_CountsForAllNM ==
    AllIdle =>
        \A n \in 0..Len(log) :
            MissesThenRepeats(n) => Counted(Len(log), n, Len(log) - n)

(* C5, amended: the same for N <= CACHE_MAX_SIZE and all N + M requests    *)
(* made within CACHE_TTL of the first one (so that no key has been evicted *)
(* or has expired when it is asked for again).                             *)
C5_CountsWithinCapacityAndTTL ==
    AllIdle =>
        \A n \in 0..Len(log) :
            ( /\ MissesThenRepeats(n)
              /\ n <= CACHE_MAX_SIZE
              /\ (n >= 1 => log[Len(log)].at - log[1].at <= CACHE_TTL) )
            => Counted(Len(log), n, Len(log) - n)

\* CACHE_MAX_SIZE distinct keys were inserted and then asked for again, twice at least
C5_Witness ==
    /\ AllIdle
    /\ MissesThenRepeats(CACHE_MAX_SIZE)
    /\ Len(log) >= CACHE_MAX_SIZE + 2
    /\ log[Len(log)].at - log[1].at <= CACHE_TTL
    /\ analytics.cache_hits = Len(log) - CACHE_MAX_SIZE

\* the latest miss for log[j]'s key before request j, 0 if there is none
LastMiss(j) ==
    LET S == {i \in 1..(j - 1) : log[i].key = log[j].key /\ ~log[i].cached}
    IN  IF S = {} THEN 0 ELSE CHOOSE i \in S : \A h \in S : h <= i

(* C6: a hit returns the entry with the timestamp its latest miss gave it, *)
(* however many hits came between, and only while the time its prune read  *)
(* is at most that timestamp + CACHE_TTL; a request whose prune reads a    *)
(* later time is a miss and stores the key with a timestamp read then.     *)
C6_TTLFromLastWrite ==
    \A j \in 1..Len(log) :
        /\ log[j].cached =>
              /\ LastMiss(j) # 0
              /\ log[j].ts = log[LastMiss(j)].ts
              /\ log[j].at <= log[j].ts + CACHE_TTL
        /\ (~log[j].cached /\ LastMiss(j) # 0
              /\ log[j].at > log[LastMiss(j)].ts + CACHE_TTL) =>
              /\ log[j].ts >= log[j].at
              /\ (AllIdle /\ j = Len(log) =>
                    \E i \in 1..Len(cache) :
                        cache[i].key = log[j].key /\ cache[i].ts = log[j].ts)
        /\ (LastMiss(j) # 0 /\ log[j].at > log[LastMiss(j)].ts + CACHE_TTL) =>
              ~log[j].cached

\* a key is inserted, hit within the TTL, and asked for again after it: a miss
C6_Witness ==
    /\ Len(log) >= 3
    /\ log[1].key = log[2].key
    /\ log[2].key = log[3].key
    /\ ~log[1].cached
    /\ log[2].cached
    /\ log[3].at > log[1].ts + CACHE_TTL
    /\ ~log[3].cached
    /\ log[3].ts > log[1].ts

HelloKey == <<"h","e","l","l","o"," ","w","o","r","l","d">>
HelloVariants == {QHello1, QHello2, QHello3}

(* C7: "Hello World", " hello world " and "HELLO WORLD" all get the cache  *)
(* key "hello world"; sent one after the other to an empty store within    *)
(* the TTL, the first is a miss and the second and third are hits.         *)
C7_KeyCollision ==
    /\ \A i \in 1..Len(log) :
          log[i].query \in HelloVariants => log[i].key = HelloKey
    /\ ( /\ Len(log) >= 3
         /\ \A i \in 1..3 : log[i].query \in HelloVariants
         /\ log[3].at - log[1].at <= CACHE_TTL )
       => /\ ~log[1].cached
          /\ log[2].cached
          /\ log[3].cached

\* the three spellings were sent in the order of the example
C7_Witness ==
    /\ Len(log) >= 3
    /\ log[1].query = QHello1
    /\ log[2].query = QHello2
    /\ log[3].query = QHello3
    /\ log[3].at - log[1].at <= CACHE_TTL
    /\ log[3].cached

(* C8: get_cache_key returns a string for every string, the empty one      *)
(* included, and applying it to its own result changes nothing.            *)
C8_NormalizeIdempotent ==
    /\ norm.calls >= 1 =>
          /\ norm.out \in Seq(KeyChars)
          /\ Len(norm.out) <= Len(norm.arg)
    /\ norm.calls = 2 => norm.out = norm.prev

\* a string with whitespace on both sides and an upper-case letter, normalised twice
C8_Witness ==
    /\ norm.calls = 2
    /\ Len(norm.arg) = MaxLen
    /\ Head(norm.arg) \in Whitespace
    /\ norm.arg[Len(norm.arg)] \in Whitespace
    /\ norm.out = <<"a">>
    /\ norm.arg[2] = "A"

(* C9: under any interleaving, no two requests for the same key are both   *)
(* between finding the key absent and inserting it.                        *)
C9_CheckAndInsertAtomic ==
    \A t, u \in Threads :
        ( /\ t # u
          /\ frame[t].pc \in {"miss_time", "miss_set"}
          /\ frame[u].pc \in {"miss_time", "miss_set"} )
        => frame[t].key # frame[u].key

(* C10: once all the requests received have completed, each with a        *)
(* response, total_requests equals their number, and so does cache_hits +  *)
(* cache_misses.                                                           *)
C10_NoLostUpdates ==
    (AllIdle /\ \A i \in 1..Len(log) : log[i].status = "ok") =>
        /\ analytics.total_requests = nreq
        /\ analytics.cache_hits + analytics.cache_misses = nreq

(* C11: under any interleaving no request ends in an error: the hit path's *)
(* pop, prune_cache's pops and prune_cache's scan never raise.             *)
C11_NoRequestFails ==
    \A i \in 1..Len(log) : log[i].status = "ok"

(* C12: no step of any execution decreases total_requests, cache_hits,     *)
(* cache_misses or cached_tokens, and the costSavings of an analytics      *)
(* snapshot is never less than that of the snapshot before it.             *)
C12_CountersMonotone ==
    [][/\ analytics'.total_requests >= analytics.total_requests
       /\ analytics'.cache_hits >= analytics.cache_hits
       /\ analytics'.cache_misses >= analytics.cache_misses
       /\ analytics'.cached_tokens >= analytics.cached_tokens
       /\ (report.status = "ok" /\ report'.status = "ok" =>
              report'.costSavings >= report.costSavings)
      ]_vars

(* C13: get_analytics never divides by zero, in any state; a snapshot      *)
(* taken while total_requests = 0 reports hitRate = 0 and missRate = 0.    *)
C13_ZeroStateAnalytics ==
    /\ get_analytics.status = "ok"
    /\ report.status \in {"none", "ok"}
    /\ (report.status = "ok" /\ report.totalRequests = 0 =>
          report.hitRate = 0 /\ report.missRate = 0)
    /\ (report.status = "ok" /\ report.totalRequests # 0 =>
          /\ report.hitRate = RoundDiv(100 * report.cacheHits, report.totalRequests)
          /\ report.missRate = RoundDiv(100 * report.cacheMisses, report.totalRequests))

\* a snapshot was taken before any request
C13_Witness ==
    /\ report.status = "ok"
    /\ report.totalRequests = 0
    /\ analytics.total_requests = 0

(* C14: get_analytics changes neither the store nor the counters and does  *)
(* not prune: the cacheSize it reports is the size of the store as it is,  *)
(* entries older than the TTL included.                                    *)
C14_SnapshotPureRead ==
    [][report' # report =>
          /\ cache' = cache
          /\ analytics' = analytics
          /\ report'.cacheSize = Len(cache)
          /\ report'.totalRequests = analytics.total_requests
          /\ report'.cacheHits = analytics.cache_hits
          /\ report'.cacheMisses = analytics.cache_misses
      ]_vars

\* a snapshot counted an entry that is older than the TTL and left it in the store
C14_Witness ==
    /\ report.status = "ok"
    /\ report.cacheSize = Len(cache)
    /\ report.totalRequests = analytics.total_requests
    /\ \E i \in 1..Len(cache) : clock - cache[i].ts > CACHE_TTL

\* the number of responses in the log that were hits (TRUE) or misses (FALSE)
Responses(cached) == Cardinality({i \in 1..Len(log) : log[i].cached = cached})

(* C15: with requests served one at a time, every request adds exactly 1   *)
(* to total_requests, before it prunes, and exactly 1 to cache_hits (a hit,*)
(* which also adds AVG_TOKENS_PER_REQUEST to cached_tokens) or to          *)
(* cache_misses (a miss, which leaves cached_tokens alone); so after every *)
(* completed request total_requests = cache_hits + cache_misses and        *)
(* cached_tokens = cache_hits * AVG_TOKENS_PER_REQUEST.                    *)
C15_CounterAccounting ==
    /\ \A t \in Threads :
          frame[t].pc \notin {"idle", "inc_total"} =>
              analytics.total_requests = Len(log) + 1
    /\ AllIdle =>
          /\ analytics.total_requests = Len(log)
          /\ analytics.cache_hits = Responses(TRUE)
          /\ analytics.cache_misses = Responses(FALSE)
          /\ analytics.cached_tokens = Responses(TRUE) * AVG_TOKENS_PER_REQUEST
          /\ analytics.total_requests = analytics.cache_hits + analytics.cache_misses
          /\ analytics.cached_tokens = analytics.cache_hits * AVG_TOKENS_PER_REQUEST

\* hits and misses have both been served and counted
C15_Witness ==
    /\ AllIdle
    /\ Responses(TRUE) >= 2
    /\ Responses(FALSE) >= 2
    /\ analytics.cached_tokens = 2 * AVG_TOKENS_PER_REQUEST

\* the entries of store c other than key k's, in their order
Others(c, k) == IF k \in KeysOf(c) THEN Without(c, k) ELSE c

(* C16: with requests served one at a time, when a request for key k       *)
(* completes k is in the store, in the most recently used position; after  *)
(* a miss its timestamp is the time the request read, after a hit its      *)
(* value and timestamp are what they were and the other entries are in the *)
(* order they were in.                                                     *)
C16_RequestedKeyIsMRU ==
    [][\A t \in Threads :
          (frame[t].pc # "idle" /\ frame'[t].pc = "idle") =>
              LET r == log'[Len(log')]
                  k == r.key
                  b == frame[t].before
                  last == cache'[Len(cache')]
              IN  /\ r.status = "ok"
                  /\ k = get_cache_key(frame[t].query)
                  /\ cache' # <<>>
                  /\ last.key = k
                  /\ \A i \in 1..(Len(cache') - 1) : cache'[i].key # k
                  /\ ~r.cached =>
                        /\ last.ts = r.ts
                        /\ r.at <= r.ts
                        /\ r.ts <= clock'
                        /\ last.answer = Answer(frame[t].query)
                  /\ r.cached =>
                        /\ k \in KeysOf(b)
                        /\ last = b[IndexOf(b, k)]
                        /\ Others(cache', k) = Others(b, k)
      ]_vars

\* a hit moved a key from the least to the most recently used position of a full store
C16_Witness ==
    /\ AllIdle
    /\ Len(log) >= 3
    /\ log[Len(log)].cached
    /\ Len(cache) = CACHE_MAX_SIZE
    /\ cache[Len(cache)].key = log[Len(log)].key
    /\ cache[Len(cache)].ts < cache[1].ts

\* the entries of store c that are not older than the TTL at time now, in their order
Fresh(c, now) == SelectSeq(c, LAMBDA e : now - e.ts <= CACHE_TTL)

\* the last n entries of c, all of c if it has no more than n
KeepNewest(c, n) == IF Len(c) <= n THEN c ELSE SubSeq(c, Len(c) - n + 1, Len(c))

\* thread t is inside prune_cache
Pruning(t) == frame[t].pc \in {"prune_iter", "prune_pop", "prune_check", "prune_evict"}

(* C17: with requests served one at a time, prune_cache called at time now *)
(* on store b leaves the entries of b whose age is at most CACHE_TTL and,  *)
(* when more than CACHE_MAX_SIZE of them remain, only the most recently    *)
(* used CACHE_MAX_SIZE of them, order and contents kept; it leaves b as it *)
(* is when nothing has expired and b is within capacity; and no step of it *)
(* changes a counter.                                                      *)
C17_PruneExact ==
    [][\A t \in Threads :
          /\ (Pruning(t) /\ frame'[t].pc = "lookup") =>
                LET b == frame[t].before
                    now == frame[t].now
                IN  /\ cache' = KeepNewest(Fresh(b, now), CACHE_MAX_SIZE)
                    /\ (Fresh(b, now) = b /\ Len(b) <= CACHE_MAX_SIZE) => cache' = b
          /\ (frame[t].pc = "prune_start" \/ Pruning(t)) =>
                /\ analytics' = analytics
                /\ report' = report
      ]_vars

\* prune_cache has taken the expired entries, and only those, out of a store
\* that was over capacity, and what is left is within capacity
C17_Witness ==
    \E t \in Threads :
        /\ frame[t].pc = "prune_check"
        /\ Len(frame[t].before) = CACHE_MAX_SIZE + 1
        /\ cache = Fresh(frame[t].before, frame[t].now)
        /\ cache # frame[t].before
        /\ cache # <<>>

(* C18: prune_cache run a second time with the same value of now leaves    *)
(* the store, its entries, timestamps and order, as the first run left it. *)
C18_PruneIdempotent ==
    [][\A t \in Threads :
          (Pruning(t) /\ frame[t].again /\ frame'[t].pc = "lookup") =>
              /\ frame'[t].now = frame[t].now
              /\ cache' = frame[t].before
      ]_vars

\* the first run removed an expired entry and kept a fresh one, and the
\* second run has returned
C18_Witness ==
    \E t \in Threads :
        LET n == Len(log)
        IN  /\ frame[t].pc = "lookup"
            /\ frame[t].again
            /\ n >= 2
            /\ ~log[n].cached /\ ~log[n - 1].cached
            /\ frame[t].now - log[n - 1].ts > CACHE_TTL
            /\ frame[t].now - log[n].ts <= CACHE_TTL
            /\ log[n - 1].key \notin KeysOf(cache)
            /\ log[n].key \in KeysOf(cache)

(* C19: with requests served one at a time the store never holds more than *)
(* CACHE_MAX_SIZE + 1 entries; it holds at most CACHE_MAX_SIZE when        *)
(* prune_cache returns; and it holds CACHE_MAX_SIZE + 1 only from the      *)
(* insert of a miss until the prune_cache of the next request has run.     *)
C19_BoundedOvershoot ==
    /\ Len(cache) <= CACHE_MAX_SIZE + 1
    /\ \A t \in Threads : frame[t].pc = "lookup" => Len(cache) <= CACHE_MAX_SIZE
    /\ Len(cache) = CACHE_MAX_SIZE + 1 =>
          \/ \E t \in Threads : frame[t].pc \in {"miss_read", "miss_write"}
          \/ /\ \A t \in Threads :
                    \/ frame[t].pc \in {"idle", "inc_total", "prune_start"}
                    \/ Pruning(t)
             /\ log # <<>>
             /\ ~log[Len(log)].cached
             /\ cache[Len(cache)].key = log[Len(log)].key

\* a request has completed and left CACHE_MAX_SIZE + 1 entries in the store
C19_Witness ==
    /\ AllIdle
    /\ Len(cache) = CACHE_MAX_SIZE + 1
    /\ ~log[Len(log)].cached

\* the latest miss for key k in the log, 0 if there is none
LatestMissFor(k) ==
    LET S == {i \in 1..Len(log) : log[i].key = k /\ ~log[i].cached}
    IN  IF S = {} THEN 0 ELSE CHOOSE i \in S : \A h \in S : h <= i

(* C20: with requests served one at a time, a hit for key k answers with   *)
(* the answer of the latest miss that inserted k, which was computed from  *)
(* that request's raw query; and whatever hits came since, the store holds *)
(* for k the answer that miss stored.                                      *)
C20_HitReturnsStored ==
    /\ \A j \in 1..Len(log) :
          log[j].cached =>
              /\ LastMiss(j) # 0
              /\ log[j].answer = log[LastMiss(j)].answer
              /\ log[j].answer = Answer(log[LastMiss(j)].query)
    /\ AllIdle =>
          \A i \in 1..Len(cache) :
              /\ LatestMissFor(cache[i].key) # 0
              /\ cache[i].answer = Answer(log[LatestMissFor(cache[i].key)].query)

\* a hit whose raw query differs from the one that was stored answered with
\* the stored answer, and the store still holds it
C20_Witness ==
    /\ AllIdle
    /\ Len(log) >= 3
    /\ log[Len(log)].cached
    /\ log[Len(log) - 1].cached
    /\ log[Len(log)].answer # Answer(log[Len(log)].query)
    /\ log[Len(log) - 1].query # log[Len(log)].query
    /\ cache[Len(cache)].answer = log[Len(log)].answer

====
